---- MODULE Spec2Model ----
(***************************************************************************)
(* A model of the vanilla-module energy dashboard: the StateManager        *)
(* (key/value store with per-key subscriber lists), the DataManager's      *)
(* synthetic data generator, its tick scheduler and history ring buffer,   *)
(* its threshold check, and the AuthService's login.                       *)
(*                                                                         *)
(* JavaScript runs one task at a time: a top-level operation starts only   *)
(* when no notification is in progress, and a subscriber callback runs     *)
(* inside the forEach loop of StateManager.notify, where it may itself     *)
(* call subscribe, an unsubscribe closure or set (re-entrantly).           *)
(***************************************************************************)
EXTENDS Integers, Sequences, FiniteSets, TLC

VARIABLES
  state,      \* StateManager.state: key -> value
  listeners,  \* StateManager.listeners: key -> array of callbacks
  stack,      \* the notify() forEach loops in progress, innermost last
  unsubs,     \* the unsubscribe closures subscribe() has returned: <<key, callback>>
  revoked,    \* history: <<key, cb>> unsubscribed from key and not subscribed to it since
  nested,     \* the store calls callbacks have made inside the current top-level set
  revokedAny, \* history: cb unsubscribed from some key and not subscribed anywhere since
  status,     \* the snapshot handed to simulateRealTimeData
  rnd,        \* the values Math.random() returned, in the order they were drawn
  updated,    \* the snapshot simulateRealTimeData returned
  pc,         \* "ready" before the call, "done" after it
  updateInterval, \* DataManager.updateInterval: a timer handle, or 0 for null
  timers,     \* the interval timers armed: [id, due], due in clock steps
  nextId,     \* the handle the next setInterval returns
  initPhase,  \* DataManager.init(): "new", "loading" (awaiting the API), "done"
  ticks,      \* history: the interval callbacks run so far
  calls,      \* history: the last two start/stop calls, the latest last
  lastStep,   \* history: what the latest operation of the application did
  alerts,     \* the array checkThresholds returned
  sessionStorage, \* the item 'authUser' of the session storage
  logins,     \* the login() calls whose 500 ms timer has not fired yet
  lastLogin,  \* history: the login whose timer fired last, and its outcome
  header,     \* what updateHeaderUI rendered last into 'user-controls'
  stale,      \* history: the pending logins called before the latest logout
  lastAuth,   \* history: what the latest operation of the AuthService did
  again,      \* the snapshot a second call of simulateRealTimeData returned
  histId,     \* the array object the store holds under historicalData
  handed,     \* history: the array last passed to a subscriber of
              \* historicalData, and its contents at that time
  tasks,      \* the interval callbacks begun and not yet over
  turn        \* the number of the callback that is running, or NoTask

storeVars == <<state, listeners, stack, unsubs, nested, revoked, revokedAny>>
genVars == <<status, rnd, updated, pc, again>>
schedVars == <<updateInterval, timers, nextId, initPhase, ticks, calls, lastStep>>
alertVars == <<alerts>>
authVars == <<sessionStorage, logins, lastLogin, header, stale, lastAuth>>
\* what the store and the generator leave alone
arrayVars == <<histId, handed>>
serialVars == <<tasks, turn>>
appVars == <<schedVars, alertVars, authVars, arrayVars, serialVars>>
vars == <<storeVars, genVars, appVars>>

-----------------------------------------------------------------------------
(* Bounds of the store model *)

\* the most registrations the store holds at once, over all keys
MaxSubs == 3
\* the most store calls (subscribe, unsubscribe, set) the callbacks of one
\* top-level set make between them
MaxNested == 1

Keys == {"k1", "k2"}
Callbacks == {"f", "g"}
\* the callbacks of the specification of the subscriber lists alone
ListCallbacks == {"f", "g", "h"}
Values == {"v1", "v2"}
\* the value every key of initialState starts with
InitialValue == "v0"

-----------------------------------------------------------------------------
(* StateManager: the pure parts *)

Range(s) == {s[i] : i \in 1..Len(s)}

\* a buggy write: the assignment left out
StoreWriteDropped(st, key, value) == st

\* this.state[key] = value
StoreWrite(st, key, value) == [st EXCEPT ![key] = value]

\* this.state[key]
Get(st, key) == st[key]

\* this.listeners[key].push(callback)
Push(arr, cb) == Append(arr, cb)

\* a buggy removal: the test inverted (listener === callback)
RECURSIVE FilterInverted(_, _)
FilterInverted(arr, cb) ==
  IF arr = <<>> THEN <<>>
  ELSE IF Head(arr) = cb THEN <<Head(arr)>> \o FilterInverted(Tail(arr), cb)
  ELSE FilterInverted(Tail(arr), cb)

\* a buggy removal: only the first registration of cb (splice at indexOf)
RECURSIVE RemoveFirst(_, _)
RemoveFirst(arr, cb) ==
  IF arr = <<>> THEN <<>>
  ELSE IF Head(arr) = cb THEN Tail(arr)
  ELSE <<Head(arr)>> \o RemoveFirst(Tail(arr), cb)

\* this.listeners[key].filter(listener => listener !== callback): a new array
RECURSIVE Filter(_, _)
Filter(arr, cb) ==
  IF arr = <<>> THEN <<>>
  ELSE IF Head(arr) # cb THEN <<Head(arr)>> \o Filter(Tail(arr), cb)
  ELSE Filter(Tail(arr), cb)

\* a buggy notify: the union of every key's listeners
NotifyAll(ls, key) ==
  LET other == CHOOSE k \in Keys : k # key IN ls[key] \o ls[other]

\* notify(): this.listeners[key], the array forEach is called on
\* (a key never subscribed to has no array: nothing is called, as for <<>>)
NotifyList(ls, key) == ls[key]

\* a buggy loop: one that reads the array's length at every step (for..of)
LiveBound(f) == Len(f.arr)

\* Array.prototype.forEach reads the length once, before the first call
LoopBound(f) == f.len

\* callback(value): the argument is notify's parameter
Arg(f) == f.value

\* The frame of one notify(key, value) call. arr is the array object forEach
\* iterates; live says that object is still this.listeners[key], so a push
\* through subscribe() lands in it.
NewFrame(ls, key, value) ==
  [key |-> key, value |-> value,
   arr |-> NotifyList(ls, key), live |-> TRUE, len |-> Len(NotifyList(ls, key)),
   idx |-> 1, called |-> <<>>, threw |-> FALSE,
   \* history: the key's array when set was called, whether a nested set has
   \* written the key since, and what was revoked when set was called
   atStart |-> ls[key], rewrote |-> FALSE,
   revS |-> {c \in Callbacks : <<key, c>> \in revoked},
   revAnyS |-> revokedAny]

Top == stack[Len(stack)]
Idle == stack = <<>>
\* the innermost loop has a callback left to call
Calling == /\ stack # <<>>
           /\ ~Top.threw
           /\ Top.idx <= LoopBound(Top)

\* the innermost frame after calling its next callback
Stepped(f) == [f EXCEPT !.idx = f.idx + 1,
                        !.called = Append(f.called, <<f.arr[f.idx], Arg(f)>>)]

ReplaceTop(s, f) == [s EXCEPT ![Len(s)] = f]

\* history: a set(key, ..) made inside the loops in progress on that key
AfterWrite(s, key) ==
  [i \in 1..Len(s) |->
     IF s[i].key = key THEN [s[i] EXCEPT !.rewrote = TRUE] ELSE s[i]]

\* subscribe(key, cb) seen from the loops in progress: the push mutates the
\* array object, so a loop over that same object sees it grow
AfterPush(s, key, cb) ==
  [i \in 1..Len(s) |->
     IF s[i].key = key /\ s[i].live THEN [s[i] EXCEPT !.arr = Push(s[i].arr, cb)]
     ELSE s[i]]

\* the unsubscribe closure seen from the loops in progress: filter() builds a
\* new array, so a loop in progress keeps iterating the old one
AfterFilter(s, key) ==
  [i \in 1..Len(s) |->
     IF s[i].key = key THEN [s[i] EXCEPT !.live = FALSE] ELSE s[i]]

-----------------------------------------------------------------------------
(* DataManager.simulateRealTimeData *)

(* Numbers are held as integers, in units of 1/Resolution of 0.1: a value  *)
(* printed with one decimal is a multiple of Resolution.                   *)

\* the units in 0.1
Resolution == 10
\* Math.random() returns one of j / RandomSteps, 0 <= j < RandomSteps
RandomSteps == 7
\* as RandomSteps, for the three draws of the weather
WeatherSteps == 3

\* CONFIG.CAMPUS_INFO, CONFIG.THRESHOLDS (kW, percent)
solar_capacity == 500
wind_capacity == 100
peak_demand == 450
battery_low == 20
\* CONFIG.SIMULATION, in tenths (battery_variation is 0.5, wind_speed_variation 0.3)
solar_variation == 100
wind_variation == 30
load_variation == 80
battery_variation == 5
temperature_variation == 5
wind_speed_variation == 3
irradiance_variation == 200

\* a number of tenths, in units
Tenths(n) == n * Resolution
\* a whole number, in units
Whole(n) == n * 10 * Resolution

Min(a, b) == IF a < b THEN a ELSE b
Max(a, b) == IF a > b THEN a ELSE b

\* a buggy clamp: the lower bound forgotten
ClampHighOnly(value, min, max) == Min(max, value)

\* a buggy clamp: the upper bound forgotten
ClampLowOnly(value, min, max) == Max(min, value)

\* utils.clamp: Math.max(min, Math.min(max, value))
Clamp(value, min, max) == Max(min, Min(max, value))

\* (Math.random() - 0.5) * variation, for Math.random() = j / steps and a
\* variation in tenths: a value in [-variation/2, variation/2)
Delta(j, steps, variation) == ((2 * j - steps) * Tenths(variation)) \div (2 * steps)

\* utils.formatNumber: num.toFixed(1), the sign and the digits (in tenths)
\* of the nearest number with one decimal. A value halfway between two is
\* printed as either: which one depends on the binary value of the double.
ToFixed(num, up) ==
  LET abs == IF num < 0 THEN -num ELSE num
      low == abs \div Resolution
      rest == abs % Resolution
  IN [negative |-> num < 0,
      tenths |-> IF 2 * rest > Resolution \/ (2 * rest = Resolution /\ up)
                 THEN low + 1 ELSE low]

\* parseFloat of such a string
ParseFloat(str) == IF str.negative THEN -Tenths(str.tenths) ELSE Tenths(str.tenths)

\* roundNumericValues: every number is replaced by
\* parseFloat(formatNumber(number, 1)), objects are rounded in turn,
\* strings are left as they are
RoundNumericValues(obj, up) ==
  [key \in DOMAIN obj |->
     IF key = "timestamp" THEN obj[key]
     ELSE IF key = "weather"
          THEN [w \in DOMAIN obj[key] |-> ParseFloat(ToFixed(obj[key][w], up))]
          ELSE ParseFloat(ToFixed(obj[key], up))]

\* simulateRealTimeData, before the rounding
Perturbed(st, r) ==
  LET solar == Clamp(st.solar_generation + Delta(r[1], RandomSteps, solar_variation),
                     0, Whole(solar_capacity))
      wind == Clamp(st.wind_generation + Delta(r[2], RandomSteps, wind_variation),
                    0, Whole(wind_capacity))
      load == Clamp(st.campus_load + Delta(r[3], RandomSteps, load_variation),
                    Whole(200), Whole(peak_demand))
      soc == Clamp(st.battery_soc + Delta(r[4], RandomSteps, battery_variation),
                   Whole(battery_low), Whole(100))
      weather ==
        [temperature |-> Clamp(st.weather.temperature
                                 + Delta(r[5], WeatherSteps, temperature_variation),
                               Whole(25), Whole(40)),
         wind_speed |-> Clamp(st.weather.wind_speed
                                + Delta(r[6], WeatherSteps, wind_speed_variation),
                              0, Whole(15)),
         irradiance |-> Clamp(st.weather.irradiance
                                + Delta(r[7], WeatherSteps, irradiance_variation),
                              0, Whole(1000)),
         cloud_cover |-> st.weather.cloud_cover]
      total == solar + wind
  IN [st EXCEPT !.solar_generation = solar,
                !.wind_generation = wind,
                !.campus_load = load,
                !.battery_soc = soc,
                !.weather = weather,
                !.total_generation = total,
                !.grid_power = load - total - st.battery_power,
                !.timestamp = "now"]

\* simulateRealTimeData(status), with the values of its seven Math.random() calls
SimulateRealTimeData(st, r, up) == RoundNumericValues(Perturbed(st, r), up)

\* a snapshot, from its values in tenths
Snapshot(solar, wind, total, load, soc, power, grid, temp, speed, irr, cloud) ==
  [timestamp |-> "before",
   solar_generation |-> Tenths(solar), wind_generation |-> Tenths(wind),
   total_generation |-> Tenths(total), campus_load |-> Tenths(load),
   battery_soc |-> Tenths(soc), battery_power |-> Tenths(power),
   grid_power |-> Tenths(grid),
   weather |-> [temperature |-> Tenths(temp), irradiance |-> Tenths(irr),
                wind_speed |-> Tenths(speed), cloud_cover |-> Tenths(cloud)]]

\* the snapshot the application starts from (current_status of the mock data)
FirstStatus == Snapshot(3855, 238, 4093, 3427, 785, 252, -414, 325, 42, 7850, 150)

\* the previous snapshots tried: the first one, one with every field at its
\* lower bound, one at the upper bounds, and one with every field out of range
Statuses ==
  {FirstStatus,
   Snapshot(0, 0, 0, 2000, 200, -100, 2100, 250, 0, 0, 0),
   Snapshot(5000, 1000, 6000, 4500, 1000, 0, -1500, 400, 150, 10000, 1000),
   Snapshot(5020, -10, 5010, 1990, 150, 252, -3272, 200, 160, 10050, 150)}

Randoms ==
  {r \in [1..7 -> 0..(Max(RandomSteps, WeatherSteps) - 1)] :
     /\ \A i \in 1..4 : r[i] < RandomSteps
     /\ \A i \in 5..7 : r[i] < WeatherSteps}


-----------------------------------------------------------------------------
(* StateManager: the operations *)

\* the registrations held, over all keys
RECURSIVE Registrations(_, _)
Registrations(ls, ks) ==
  IF ks = {} THEN 0
  ELSE LET k == CHOOSE x \in ks : TRUE
       IN Len(ls[k]) + Registrations(ls, ks \ {k})

DoSubscribe(s, key, cb) ==
  /\ Registrations(listeners, Keys) < MaxSubs
  /\ listeners' = [listeners EXCEPT ![key] = Push(listeners[key], cb)]
  /\ stack' = AfterPush(s, key, cb)
  /\ unsubs' = unsubs \cup {<<key, cb>>}
  /\ revoked' = revoked \ {<<key, cb>>}
  /\ revokedAny' = revokedAny \ {cb}
  /\ UNCHANGED state

DoUnsubscribe(s, key, cb) ==
  /\ <<key, cb>> \in unsubs
  /\ listeners' = [listeners EXCEPT ![key] = Filter(listeners[key], cb)]
  /\ stack' = AfterFilter(s, key)
  /\ revoked' = revoked \cup {<<key, cb>>}
  /\ revokedAny' = revokedAny \cup {cb}
  /\ UNCHANGED <<state, unsubs>>

DoSet(s, key, value) ==
  /\ state' = StoreWrite(state, key, value)
  /\ stack' = Append(AfterWrite(s, key), NewFrame(listeners, key, value))
  /\ UNCHANGED <<listeners, unsubs, revoked, revokedAny>>

\* a top-level caller: stateManager.subscribe(key, cb)
Subscribe(key, cb) ==
  /\ Idle
  /\ DoSubscribe(stack, key, cb)
  /\ UNCHANGED nested

\* a top-level caller invokes the closure subscribe(key, cb) returned
Unsubscribe(key, cb) ==
  /\ Idle
  /\ DoUnsubscribe(stack, key, cb)
  /\ UNCHANGED nested

\* a top-level caller: stateManager.set(key, value), up to the forEach
SetCall(key, value) ==
  /\ Idle
  /\ DoSet(stack, key, value)
  /\ UNCHANGED nested

\* forEach calls the next callback, which returns
CbReturn ==
  /\ Calling
  /\ stack' = ReplaceTop(stack, Stepped(Top))
  /\ UNCHANGED <<state, listeners, unsubs, nested, revoked, revokedAny>>

\* forEach calls the next callback, which raises: notify has no try/catch
CbThrow ==
  /\ Calling
  /\ stack' = ReplaceTop(stack, [Stepped(Top) EXCEPT !.threw = TRUE])
  /\ UNCHANGED <<state, listeners, unsubs, nested, revoked, revokedAny>>

\* forEach calls the next callback, which subscribes cb to key and returns
CbSubscribe(key, cb) ==
  /\ Calling
  /\ nested < MaxNested
  /\ DoSubscribe(ReplaceTop(stack, Stepped(Top)), key, cb)
  /\ nested' = nested + 1

\* forEach calls the next callback, which calls an unsubscribe closure and returns
CbUnsubscribe(key, cb) ==
  /\ Calling
  /\ nested < MaxNested
  /\ DoUnsubscribe(ReplaceTop(stack, Stepped(Top)), key, cb)
  /\ nested' = nested + 1

\* forEach calls the next callback, which calls set(key, value) and returns
\* once that nested set has
CbSet(key, value) ==
  /\ Calling
  /\ nested < MaxNested
  /\ DoSet(ReplaceTop(stack, Stepped(Top)), key, value)
  /\ nested' = nested + 1

\* forEach is through: notify and set return to their caller
SetReturn ==
  /\ stack # <<>>
  /\ ~Top.threw
  /\ Top.idx > LoopBound(Top)
  /\ stack' = SubSeq(stack, 1, Len(stack) - 1)
  /\ nested' = IF Len(stack) = 1 THEN 0 ELSE nested
  /\ UNCHANGED <<state, listeners, unsubs, revoked, revokedAny>>

\* the exception leaves forEach, notify and set; a callback that had called
\* set re-entrantly does not catch it, so the loops below end with it
SetThrow ==
  /\ stack # <<>>
  /\ Top.threw
  /\ stack' = <<>>
  /\ nested' = 0
  /\ UNCHANGED <<state, listeners, unsubs, revoked, revokedAny>>

StoreStart ==
  /\ state = [k \in Keys |-> InitialValue]
  /\ listeners = [k \in Keys |-> <<>>]
  /\ stack = <<>>
  /\ unsubs = {}
  /\ nested = 0
  /\ revoked = {}
  /\ revokedAny = {}

-----------------------------------------------------------------------------
(* The application's store *)

\* null, and a string where null may stand
Null == [null |-> TRUE]
Str(s) == [string |-> s]

\* the login button updateHeaderUI renders for a visitor
LoginButton == [button |-> "login-btn"]

AppKeys ==
  {"loading", "error", "isAuthenticated", "user", "currentStatus",
   "historicalData", "forecasts", "recommendations", "alerts"}

\* stateManager's initialState
initialState ==
  [k \in AppKeys |->
     CASE k = "loading" -> TRUE
       [] k = "isAuthenticated" -> FALSE
       [] k \in {"error", "user", "currentStatus"} -> Null
       [] OTHER -> <<>>]

\* the subscribers the model follows: the dashboard's on currentStatus
\* (UIController) and the chart's on historicalData (ChartManager)
AppListeners ==
  [k \in AppKeys |->
     CASE k = "currentStatus" -> <<"updateDashboard">>
       [] k = "historicalData" -> <<"updateCharts">>
       [] OTHER -> <<>>]

\* the callbacks forEach calls in notify(key) when the j-th raises (j = 0:
\* none does): the loop ends with the exception
CalledUpTo(ls, key, j) ==
  LET arr == NotifyList(ls, key)
  IN [i \in 1..(IF j = 0 THEN Len(arr) ELSE j) |-> <<key, arr[i]>>]

\* one caller's store writes, in order: writes is the sequence of
\* <<key, value>> it means to set. stop = 0: every notification returns;
\* otherwise the j-th callback of the stop-th write raises, that write is in
\* the state and the later ones are never made.
RECURSIVE RunWrites(_, _, _, _, _)
RunWrites(st, ls, writes, stop, j) ==
  IF writes = <<>> THEN [state |-> st, notified |-> <<>>, raised |-> FALSE]
  ELSE LET key == Head(writes)[1]
           written == StoreWrite(st, key, Head(writes)[2])
       IN IF stop = 1
          THEN [state |-> written, notified |-> CalledUpTo(ls, key, j),
                raised |-> TRUE]
          ELSE LET rest == RunWrites(written, ls, Tail(writes),
                                     IF stop = 0 THEN 0 ELSE stop - 1, j)
               IN [rest EXCEPT !.notified = CalledUpTo(ls, key, 0) \o @]

\* the run wrote key: the subscribers of key were notified
Wrote(run, key) == \E i \in DOMAIN run.notified : run.notified[i][1] = key

\* what the subscribers of historicalData were last passed: the array object
\* set, with the contents it had then
Delivered(run, array, before) ==
  IF Wrote(run, "historicalData")
  THEN [array |-> array, seq |-> Get(run.state, "historicalData")]
  ELSE before

\* the ways the notifications of a run of writes can go: <<0, 0>>, or
\* <<n, j>> for the j-th callback of the n-th write raising
Outcomes(ls, writes) ==
  {<<0, 0>>} \cup
  UNION {{<<n, j>> : j \in 1..Len(NotifyList(ls, writes[n][1]))} :
           n \in 1..Len(writes)}

-----------------------------------------------------------------------------
(* DataManager: the history, the generator on any snapshot, the scheduler *)

\* maxPoints of addHistoricalDataPoint. The code's value is
\* floor(24 * 60 * 60 / (UPDATE_INTERVAL / 1000)) = 17280; the model keeps the
\* code's comparison and scales the number down, with the API's history
\* scaled along (11 points of 17280: below the capacity)
maxPoints == 3
\* the ticks of one run
MaxTicks == 4
\* the setInterval calls of one run
MaxTimers == 3
\* the instants told apart within one UPDATE_INTERVAL
ClockSteps == 2

\* toLocaleTimeString('en-IN', hour and minute) of the wall clock, which the
\* model does not follow: the ticks of a run fall in one minute
Minutes == {"16:05"}

\* a buggy eviction: the newest point dropped (pop)
Pop(arr) == SubSeq(arr, 1, Len(arr) - 1)

\* historical.shift()
Shift(arr) == Tail(arr)

\* newPoint
HistoryPoint(st, time) ==
  [time |-> time, solar |-> st.solar_generation, wind |-> st.wind_generation,
   load |-> st.campus_load, battery |-> st.battery_soc]

\* addHistoricalDataPoint: the array after push and the one shift
WithPoint(historical, point) ==
  LET pushed == Push(historical, point)
  IN IF Len(pushed) > maxPoints THEN Shift(pushed) ELSE pushed

\* NaN, which no arithmetic yields in this model: a number out of every range
NaN == 0 - Whole(1000000)

\* the fields the generator reads from the previous snapshot
Required ==
  {"solar_generation", "wind_generation", "campus_load", "battery_soc",
   "battery_power", "weather"}

\* st[field] is undefined (the property is missing) or NaN
NotANumber(st, field) == field \notin DOMAIN st \/ st[field] = NaN

\* the fields of the new snapshot that are NaN: undefined + number is NaN,
\* Math.min and Math.max of NaN are NaN, NaN.toFixed(1) is "NaN" and
\* parseFloat("NaN") is NaN
NaNFields(st) ==
  {f \in {"solar_generation", "wind_generation", "campus_load", "battery_soc"} :
     NotANumber(st, f)}
  \cup (IF NotANumber(st, "solar_generation") \/ NotANumber(st, "wind_generation")
        THEN {"total_generation"} ELSE {})
  \cup (IF \E f \in {"solar_generation", "wind_generation", "campus_load",
                     "battery_power"} : NotANumber(st, f)
        THEN {"grid_power"} ELSE {})

\* the snapshot with a number in the place of every missing or NaN one, for
\* the arithmetic of the fields that do not depend on it
Numbered(st) ==
  [f \in DOMAIN st \cup (Required \ {"weather"}) \cup
         {"total_generation", "grid_power", "timestamp"} |->
     IF f = "timestamp" THEN "before"
     ELSE IF f = "weather" THEN st[f]
     ELSE IF NotANumber(st, f) THEN 0 ELSE st[f]]

\* simulateRealTimeData raises: status.weather.temperature of a snapshot
\* without weather is a TypeError; nothing else is checked
Raises(st) == "weather" \notin DOMAIN st

\* simulateRealTimeData(st) on any snapshot with a weather: { ...status } has
\* the properties of status, and the eight assigned ones
Simulated(st, r, up) ==
  LET out == SimulateRealTimeData(Numbered(st), r, up)
  IN [f \in DOMAIN st \cup {"solar_generation", "wind_generation", "campus_load",
                            "battery_soc", "weather", "total_generation",
                            "grid_power", "timestamp"} |->
        IF f \in NaNFields(st) THEN NaN ELSE out[f]]

\* the snapshot without one of its fields
Without(st, field) == [f \in DOMAIN st \ {field} |-> st[f]]

\* the malformed snapshots: the mock one without one of the fields the
\* generator reads
Malformed == {Without(FirstStatus, f) : f \in Required}

\* what apiService.getCurrentStatus() resolves to in the runs of the
\* application: the mock snapshot, or the one without weather
ApiStatuses == {FirstStatus, Without(FirstStatus, "weather")}

\* historical_data of the mock data: its last two points
MockHistory ==
  <<[time |-> "15:00", solar |-> Whole(398), wind |-> Whole(32),
     load |-> Whole(365), battery |-> Whole(80)],
    [time |-> "16:00", solar |-> Whole(385), wind |-> Whole(24),
     load |-> Whole(343), battery |-> Whole(78)]>>

\* what apiService.getHistoricalData() resolves to: the last point or the
\* last two of the mock history
ApiHistories == {SubSeq(MockHistory, 2, 2), MockHistory}

\* the values Math.random() returns during a tick: all the lowest, or all
\* the highest
TickRandoms ==
  {[i \in 1..7 |-> 0],
   [i \in 1..7 |-> IF i <= 4 THEN RandomSteps - 1 ELSE WeatherSteps - 1]}

\* this.updateInterval = null
NoTimer == 0

\* setInterval(callback, CONFIG.UPDATE_INTERVAL): a timer of its own, first
\* due a whole interval from now
SetInterval(ts, id) == ts \cup {[id |-> id, due |-> ClockSteps]}

\* clearInterval(id): a handle of no armed timer is ignored
ClearInterval(ts, id) == {t \in ts : t.id # id}

\* a buggy start: the timer already armed is left running
StartKeepsOld(ts, handle, id) == SetInterval(ts, id)

\* startRealTimeUpdates: the timers armed afterwards
StartTimers(ts, handle, id) ==
  SetInterval(IF handle # NoTimer THEN ClearInterval(ts, handle) ELSE ts, id)

\* a buggy stop: the handle forgotten, the timer left armed
StopForgets(ts, handle) == ts

\* stopRealTimeUpdates: the timers armed afterwards
StopTimers(ts, handle) ==
  IF handle # NoTimer THEN ClearInterval(ts, handle) ELSE ts

\* a buggy timer: a callback that raised is not called again
FiredOnce(ts, id, raised) ==
  IF raised THEN ClearInterval(ts, id) ELSE SetInterval(ClearInterval(ts, id), id)

\* an interval timer that fired is due again a whole interval later, whatever
\* its callback did: the callback catches what updateRealTimeData raises
Fired(ts, id, raised) == SetInterval(ClearInterval(ts, id), id)

\* time passes
Later(ts) == {[t EXCEPT !.due = IF @ > 0 THEN @ - 1 ELSE 0] : t \in ts}

\* what the application's latest operation did
Step(op, outcome, notified) == [op |-> op, outcome |-> outcome, notified |-> notified]

\* startRealTimeUpdates()
DoStart ==
  /\ nextId <= MaxTimers
  /\ timers' = StartTimers(timers, updateInterval, nextId)
  /\ updateInterval' = nextId
  /\ nextId' = nextId + 1
  /\ calls' = <<calls[2], "start">>

\* a buggy stop: the field keeps the handle
StopKeepsHandle(handle) == handle

\* stopRealTimeUpdates: this.updateInterval afterwards
StopHandle(handle) == IF handle # NoTimer THEN NoTimer ELSE handle

\* stopRealTimeUpdates()
DoStop ==
  /\ timers' = StopTimers(timers, updateInterval)
  /\ updateInterval' = StopHandle(updateInterval)
  /\ calls' = <<calls[2], "stop">>
  /\ UNCHANGED nextId

\* visibilitychange with the page visible
PageVisible ==
  /\ DoStart
  /\ lastStep' = Step("start", "done", <<>>)
  /\ UNCHANGED <<state, initPhase, ticks, arrayVars>>

\* visibilitychange with the page hidden, or destroy()
PageHidden ==
  /\ DoStop
  /\ lastStep' = Step("stop", "done", <<>>)
  /\ UNCHANGED <<state, initPhase, ticks, arrayVars>>

\* init() up to the await of loadInitialData: setLoading(true)
InitCall ==
  /\ initPhase = "new"
  /\ initPhase' = "loading"
  /\ LET run == RunWrites(state, listeners, <<<<"loading", TRUE>>>>, 0, 0)
     IN /\ state' = run.state
        /\ lastStep' = Step("init", "loading", run.notified)
  /\ UNCHANGED <<updateInterval, timers, nextId, ticks, calls, arrayVars>>

\* the writes of loadInitialData once the five requests have resolved
LoadWrites(current, historical) ==
  <<<<"currentStatus", current>>, <<"historicalData", historical>>,
    <<"forecasts", <<"forecast">>>>, <<"recommendations", <<"recommendation">>>>,
    <<"alerts", <<"alert">>>>, <<"error", Null>>>>

\* a buggy failure path: no finally, the flag is left set
FailedKeepsLoading(st) == StoreWrite(st, "error", Str("Failed to load initial data"))

\* finally { setLoading(false) }, then the catch of init: setError(...)
Failed(st) ==
  StoreWrite(StoreWrite(st, "loading", FALSE),
             "error", Str("Failed to load initial data"))

\* the requests resolve, getCurrentStatus() to one of statuses: the rest of
\* loadInitialData and of init
Loaded(statuses) ==
  /\ initPhase = "loading"
  /\ initPhase' = "done"
  /\ \E current \in statuses, historical \in ApiHistories :
       LET writes == LoadWrites(current, historical)
       IN \E o \in Outcomes(listeners, writes) :
            LET run == RunWrites(state, listeners, writes, o[1], o[2])
            IN /\ histId' = IF Wrote(run, "historicalData") THEN "api" ELSE histId
               /\ handed' = Delivered(run, "api", handed)
               /\ IF run.raised
                  THEN /\ state' = Failed(run.state)
                       /\ lastStep' = Step("init", "subscriber raised", run.notified)
                       /\ UNCHANGED <<updateInterval, timers, nextId, calls>>
                  ELSE /\ state' = StoreWrite(run.state, "loading", FALSE)
                       /\ lastStep' = Step("init", "started", run.notified)
                       /\ DoStart
  /\ UNCHANGED ticks

InitLoaded == Loaded(ApiStatuses)

\* a request is rejected: finally, and the catch of init; no timer is started
InitFailed ==
  /\ initPhase = "loading"
  /\ initPhase' = "done"
  /\ state' = Failed(state)
  /\ lastStep' = Step("init", "failed", <<>>)
  /\ UNCHANGED <<updateInterval, timers, nextId, ticks, calls, arrayVars>>

\* a buggy read: a snapshot made up when the store has none
CurrentOrMock(st) ==
  IF Get(st, "currentStatus") = Null THEN FirstStatus ELSE Get(st, "currentStatus")

\* updateRealTimeData: const currentStatus = stateManager.get('currentStatus')
Current(st) == Get(st, "currentStatus")

\* updateRealTimeData skips the tick: !currentStatus
Skips(current) == current = Null

\* addHistoricalDataPoint: const historical = stateManager.get(
\* 'historicalData') || []. An array is never falsy: historical is the array
\* object the store holds, push and shift change that object, and
\* updateHistoricalData sets the same object again
Historical(array) == array

\* the writes of updateRealTimeData: updateCurrentStatus(updated), then
\* addHistoricalDataPoint(updated) and its updateHistoricalData(historical)
TickWrites(st, new, time) ==
  <<<<"currentStatus", new>>,
    <<"historicalData",
      WithPoint(Get(st, "historicalData"), HistoryPoint(new, time))>>>>

\* an armed timer is due: its callback runs updateRealTimeData and catches
\* what it raises
Tick ==
  /\ ticks < MaxTicks
  /\ ticks' = ticks + 1
  /\ \E t \in timers :
       /\ t.due = 0
       /\ LET current == Current(state)
          IN IF Skips(current)
             THEN /\ lastStep' = Step("tick", "skipped", <<>>)
                  /\ timers' = Fired(timers, t.id, FALSE)
                  /\ UNCHANGED <<state, arrayVars>>
             ELSE IF Raises(current)
             THEN /\ lastStep' = Step("tick", "generator raised", <<>>)
                  /\ timers' = Fired(timers, t.id, TRUE)
                  /\ UNCHANGED <<state, arrayVars>>
             ELSE \E r \in TickRandoms, up \in BOOLEAN, time \in Minutes :
                    LET writes == TickWrites(state, Simulated(current, r, up), time)
                    IN \E o \in Outcomes(listeners, writes) :
                         LET run == RunWrites(state, listeners, writes, o[1], o[2])
                         IN /\ state' = run.state
                            /\ histId' = Historical(histId)
                            /\ handed' = Delivered(run, Historical(histId), handed)
                            /\ timers' = Fired(timers, t.id, run.raised)
                            /\ lastStep' =
                                 Step("tick",
                                      IF run.raised THEN "subscriber raised"
                                      ELSE "published",
                                      run.notified)
  /\ UNCHANGED <<updateInterval, nextId, initPhase, calls>>

\* time passes: a step of the clock
ClockStep ==
  /\ \E t \in timers : t.due > 0
  /\ timers' = Later(timers)
  /\ lastStep' = Step("clock", "done", <<>>)
  /\ UNCHANGED <<state, updateInterval, nextId, initPhase, ticks, calls, arrayVars>>

\* no interval callback is running
NoTask == 0

\* a tick body that would await its first write
SuspendsAfterStatus(at) == at = "status"

\* the tick body gives up the thread after reaching a position: there is no
\* await in updateRealTimeData, simulateRealTimeData, addHistoricalDataPoint
\* or the store, so it never does before its last write
Suspends(at) == FALSE

\* the interval callback t has moved to a position of updateRealTimeData
Moved(t, at, new) ==
  /\ tasks' = (tasks \ {t}) \cup {[t EXCEPT !.at = at, !.updated = new]}
  /\ turn' = IF Suspends(at) THEN NoTask ELSE t.n

\* the interval callback t is over
Over(t) ==
  /\ tasks' = tasks \ {t}
  /\ turn' = NoTask

\* an armed timer is due and nothing is running: the event loop calls the
\* interval callback, which calls updateRealTimeData
SerialFire ==
  /\ turn = NoTask
  /\ ticks < MaxTicks
  /\ ticks' = ticks + 1
  /\ \E t \in timers :
       /\ t.due = 0
       /\ timers' = Fired(timers, t.id, FALSE)
  /\ tasks' = tasks \cup {[n |-> ticks + 1, at |-> "begun", updated |-> Null]}
  /\ turn' = ticks + 1
  /\ lastStep' = Step("tick", "begun", <<>>)
  /\ UNCHANGED <<state, updateInterval, nextId, initPhase, calls, arrayVars>>

\* the next statement of updateRealTimeData in an interval callback that is
\* running, or that had given up the thread while nothing else runs: the
\* read and updateCurrentStatus(updated), then historical.push (and shift),
\* then updateHistoricalData(historical)
SerialStep ==
  /\ \E t \in tasks :
       /\ turn = t.n \/ turn = NoTask
       /\ IF t.at = "begun"
          THEN LET current == Current(state)
               IN IF Skips(current) \/ Raises(current)
                  THEN /\ Over(t)
                       /\ lastStep' = Step("tick", "nothing written", <<>>)
                       /\ UNCHANGED <<state, arrayVars>>
                  ELSE \E r \in TickRandoms, up \in BOOLEAN :
                         LET new == Simulated(current, r, up)
                             run == RunWrites(state, listeners,
                                              <<<<"currentStatus", new>>>>, 0, 0)
                         IN /\ state' = run.state
                            /\ Moved(t, "status", new)
                            /\ lastStep' = Step("tick", "status written", run.notified)
                            /\ UNCHANGED arrayVars
          ELSE IF t.at = "status"
          THEN \E time \in Minutes :
                 /\ state' = StoreWrite(state, "historicalData",
                                        WithPoint(Get(state, "historicalData"),
                                                  HistoryPoint(t.updated, time)))
                 /\ Moved(t, "pushed", t.updated)
                 /\ histId' = Historical(histId)
                 /\ lastStep' = Step("tick", "point pushed", <<>>)
                 /\ UNCHANGED handed
          ELSE LET run == RunWrites(state, listeners,
                                    <<<<"historicalData", Get(state, "historicalData")>>>>,
                                    0, 0)
               IN /\ state' = run.state
                  /\ Over(t)
                  /\ histId' = Historical(histId)
                  /\ handed' = Delivered(run, Historical(histId), handed)
                  /\ lastStep' = Step("tick", "published", run.notified)
  /\ UNCHANGED <<updateInterval, timers, nextId, initPhase, ticks, calls>>

SchedStart ==
  /\ updateInterval = NoTimer
  /\ timers = {}
  /\ nextId = 1
  /\ initPhase = "new"
  /\ ticks = 0
  /\ calls = <<"none", "none">>
  /\ lastStep = Step("none", "none", <<>>)

AlertStart == alerts = <<>>

AuthStart ==
  /\ sessionStorage = Null
  /\ logins = <<>>
  /\ lastLogin = Null
  /\ header = LoginButton
  /\ stale = 0
  /\ lastAuth = Step("none", "none", <<>>)

\* historicalData is the array of initialState, which nobody was passed
ArrayStart ==
  /\ histId = "initialState"
  /\ handed = Null

SerialStart ==
  /\ tasks = {}
  /\ turn = NoTask

AppStart == SchedStart /\ AlertStart /\ AuthStart /\ ArrayStart /\ SerialStart

-----------------------------------------------------------------------------
(* DataManager.checkThresholds *)

\* CONFIG.THRESHOLDS.load_high (kW)
load_high == 400

\* a buggy comparison: the threshold itself counted as below it
AtMost(a, b) == a <= b

\* status.battery_soc < thresholds.battery_low (false for NaN)
Below(a, b) == a # NaN /\ a < b

\* status.campus_load > thresholds.load_high (false for NaN)
Above(a, b) == a # NaN /\ a > b

\* the alert pushed for a rule (its timestamp left out)
Alert(message, threshold) ==
  [type |-> "warning", message |-> message, threshold |-> threshold]

BatteryAlert == Alert("Battery SOC below % - consider charging", battery_low)
LoadAlert == Alert("Campus load exceeding kW - high demand detected", load_high)

\* checkThresholds(status): the array returned
CheckThresholds(st) ==
  (IF Below(st.battery_soc, Whole(battery_low)) THEN <<BatteryAlert>> ELSE <<>>)
  \o (IF Above(st.campus_load, Whole(load_high)) THEN <<LoadAlert>> ELSE <<>>)

\* the snapshots checked: the mock one with these states of charge and loads
\* (in tenths), on both sides of the thresholds and at them
ThresholdStatuses ==
  {[FirstStatus EXCEPT !.battery_soc = Tenths(soc), !.campus_load = Tenths(load)] :
     soc \in {0, 185, 199, 200, 201, 250, 785, 1000},
     load \in {2000, 3427, 3999, 4000, 4001, 4093, 4500}}

\* one call of checkThresholds(status)
Check ==
  /\ pc = "ready"
  /\ alerts' = CheckThresholds(status)
  /\ pc' = "done"
  /\ UNCHANGED <<status, rnd, updated, again, storeVars, schedVars, authVars, arrayVars, serialVars>>

\* what new Date().toISOString() returns, in the order of time
Instants == <<"2025-06-01T10:00:00.000Z", "2025-06-01T10:00:05.000Z">>

\* simulateRealTimeData(st) called at an instant:
\* updated.timestamp = new Date().toISOString()
SimulateAt(st, r, up, instant) == [Simulated(st, r, up) EXCEPT !.timestamp = instant]

\* the argument after the call: const updated = { ...status } copies the
\* properties, every assignment is to updated, and updated.weather is a new
\* object: status and status.weather are only read
InputAfter(st) == st

\* the previous snapshots of the calls: those of Statuses, the mock one
\* without its state of charge or without its load, and one with the load
\* above peak_demand and the state of charge below battery_low
CallStatuses ==
  Statuses \cup {Without(FirstStatus, "battery_soc"), Without(FirstStatus, "campus_load"),
                 Snapshot(3855, 238, 4093, 4600, 150, 252, 255, 325, 42, 7850, 150)}

\* the draws of the calls: every one for the four power values, the lowest
\* for the weather
CallDraws == {r \in Randoms : \A i \in 5..7 : r[i] = 0}

\* simulateRealTimeData(status) called twice with the same argument, the
\* same draws and the same rounding, the second call not before the first
SimulateTwice ==
  /\ pc = "ready"
  /\ \E r \in CallDraws, up \in BOOLEAN, i \in DOMAIN Instants, j \in DOMAIN Instants :
       /\ i <= j
       /\ updated' = SimulateAt(status, r, up, Instants[i])
       /\ again' = SimulateAt(InputAfter(status), r, up, Instants[j])
       /\ rnd' = r
  /\ status' = InputAfter(status)
  /\ pc' = "done"
  /\ UNCHANGED <<storeVars, appVars>>

\* checkThresholds(updated) on the snapshot the generator returned
CheckUpdated ==
  /\ pc = "done"
  /\ alerts' = CheckThresholds(updated)
  /\ pc' = "checked"
  /\ UNCHANGED <<status, rnd, updated, again, storeVars, schedVars, authVars, arrayVars, serialVars>>

-----------------------------------------------------------------------------
(* AuthService *)

\* the login() calls whose timer is pending at once
MaxPending == 2

\* what the user types at the two prompts
Usernames == {"admin", "Admin"}
Passwords == {"password", "secret"}

\* the user object of a successful login
AdminUser == [name |-> "Admin User", username |-> "admin"]

\* JSON.stringify(user), and JSON.parse of such a string
JsonStringify(user) == Str(<<"name", user.name, "username", user.username>>)
JsonParse(str) == [name |-> str.string[2], username |-> str.string[4]]

\* a buggy test: either half of the pair is enough
AcceptedEither(username, password) == username = "admin" \/ password = "password"

\* username === 'admin' && password === 'password'
Accepted(username, password) == username = "admin" /\ password = "password"

\* the subscribers of the store: the header's on isAuthenticated (UIController)
AuthListeners ==
  [k \in AppKeys |-> IF k = "isAuthenticated" THEN <<"updateHeaderUI">> ELSE <<>>]

\* a buggy logout: the user left in the store
LogoutFlagOnly == <<<<"isAuthenticated", FALSE>>>>

\* stateManager.loginUser(user), stateManager.logoutUser(): their writes
LoginWrites(user) == <<<<"isAuthenticated", TRUE>>, <<"user", user>>>>
LogoutWrites == <<<<"isAuthenticated", FALSE>>, <<"user", Null>>>>

\* updateHeaderUI: the welcome of the user when isAuthenticated && user, the
\* login button otherwise; both are read from the store when it runs
Rendered(st) ==
  IF Get(st, "isAuthenticated") = TRUE /\ Get(st, "user") # Null
  THEN [welcome |-> Get(st, "user").name, button |-> "logout-btn"]
  ELSE LoginButton

\* 'user-controls' after a run of store writes: every write whose
\* notification calls updateHeaderUI, and in which it does not raise, renders
\* the store as it is after that write
RECURSIVE HeaderAfter(_, _, _, _, _, _)
HeaderAfter(h, st, ls, writes, stop, j) ==
  IF writes = <<>> THEN h
  ELSE LET key == Head(writes)[1]
           written == StoreWrite(st, key, Head(writes)[2])
           arr == NotifyList(ls, key)
           returned == {arr[i] : i \in 1..(IF stop = 1 THEN j - 1 ELSE Len(arr))}
           now == IF "updateHeaderUI" \in returned THEN Rendered(written) ELSE h
       IN IF stop = 1 THEN now
          ELSE HeaderAfter(now, written, ls, Tail(writes),
                           IF stop = 0 THEN 0 ELSE stop - 1, j)

\* the last login whose timer fired
LoginDone(call, outcome) ==
  [username |-> call.username, password |-> call.password, outcome |-> outcome]

\* authService.login(username, password): the promise is made and the
\* 500 ms timer set; nothing else happens before it fires
Login(username, password) ==
  /\ Len(logins) < MaxPending
  /\ logins' = Append(logins, [username |-> username, password |-> password])
  /\ lastAuth' = Step("login", "pending", <<>>)
  /\ UNCHANGED <<state, sessionStorage, lastLogin, header, stale>>

\* the timer of the oldest pending login fires (equal delays: in the order
\* of the calls)
LoginTimer ==
  /\ logins # <<>>
  /\ logins' = Tail(logins)
  /\ stale' = IF stale > 0 THEN stale - 1 ELSE 0
  /\ LET call == Head(logins)
     IN IF Accepted(call.username, call.password)
        THEN /\ sessionStorage' = JsonStringify(AdminUser)
             /\ \E o \in Outcomes(listeners, LoginWrites(AdminUser)) :
                  LET run == RunWrites(state, listeners, LoginWrites(AdminUser),
                                       o[1], o[2])
                      outcome == IF run.raised THEN "raised" ELSE "resolved"
                  IN /\ state' = run.state
                     /\ header' = HeaderAfter(header, state, listeners,
                                              LoginWrites(AdminUser), o[1], o[2])
                     /\ lastLogin' = LoginDone(call, outcome)
                     /\ lastAuth' = Step("login timer", outcome, run.notified)
        ELSE /\ lastLogin' = LoginDone(call, "rejected")
             /\ lastAuth' = Step("login timer", "rejected", <<>>)
             /\ UNCHANGED <<state, sessionStorage, header>>

\* authService.logout()
Logout ==
  /\ sessionStorage' = Null
  /\ \E o \in Outcomes(listeners, LogoutWrites) :
       LET run == RunWrites(state, listeners, LogoutWrites, o[1], o[2])
       IN /\ state' = run.state
          /\ header' = HeaderAfter(header, state, listeners, LogoutWrites, o[1], o[2])
          /\ lastAuth' = Step("logout", IF run.raised THEN "raised" ELSE "returned",
                             run.notified)
  /\ stale' = Len(logins)
  /\ UNCHANGED <<logins, lastLogin>>

-----------------------------------------------------------------------------
(* The specifications *)

GenStart ==
  /\ status = FirstStatus
  /\ rnd = [i \in 1..7 |-> 0]
  /\ updated = FirstStatus
  /\ again = FirstStatus
  /\ pc = "ready"

GenInit ==
  /\ StoreStart
  /\ AppStart
  /\ status \in Statuses
  /\ rnd = [i \in 1..7 |-> 0]
  /\ updated = status
  /\ again = status
  /\ pc = "ready"

\* one call of simulateRealTimeData(status)
Simulate ==
  /\ pc = "ready"
  /\ \E r \in Randoms, up \in BOOLEAN :
       /\ updated' = SimulateRealTimeData(status, r, up)
       /\ rnd' = r
  /\ pc' = "done"
  /\ UNCHANGED <<status, again, storeVars, appVars>>

GenNext == Simulate

SpecGen == GenInit /\ [][GenNext]_vars

StoreInit == StoreStart /\ GenStart /\ AppStart
StoreNext ==
  \/ \E k \in Keys, c \in Callbacks : Subscribe(k, c) /\ UNCHANGED <<genVars, appVars>>
  \/ \E k \in Keys, c \in Callbacks : Unsubscribe(k, c) /\ UNCHANGED <<genVars, appVars>>
  \/ \E k \in Keys, v \in Values : SetCall(k, v) /\ UNCHANGED <<genVars, appVars>>
  \/ CbReturn /\ UNCHANGED <<genVars, appVars>>
  \/ CbThrow /\ UNCHANGED <<genVars, appVars>>
  \/ \E k \in Keys, c \in Callbacks : CbSubscribe(k, c) /\ UNCHANGED <<genVars, appVars>>
  \/ \E k \in Keys, c \in Callbacks : CbUnsubscribe(k, c) /\ UNCHANGED <<genVars, appVars>>
  \/ \E k \in Keys, v \in Values : CbSet(k, v) /\ UNCHANGED <<genVars, appVars>>
  \/ SetReturn /\ UNCHANGED <<genVars, appVars>>
  \/ SetThrow /\ UNCHANGED <<genVars, appVars>>

SpecStore == StoreInit /\ [][StoreNext]_vars

\* The generator called twice on one snapshot, and checkThresholds on what
\* it returned.
CallInit ==
  /\ StoreStart
  /\ AppStart
  /\ status \in CallStatuses
  /\ rnd = [i \in 1..7 |-> 0]
  /\ updated = status
  /\ again = status
  /\ pc = "ready"

CallNext ==
  \/ SimulateTwice
  \/ CheckUpdated

SpecCalls == CallInit /\ [][CallNext]_vars

\* The subscriber lists alone: top-level callers subscribe and unsubscribe
\* three callbacks.
ListNext ==
  \/ \E k \in Keys, c \in ListCallbacks : Subscribe(k, c) /\ UNCHANGED <<genVars, appVars>>
  \/ \E k \in Keys, c \in ListCallbacks : Unsubscribe(k, c) /\ UNCHANGED <<genVars, appVars>>

SpecLists == StoreInit /\ [][ListNext]_vars

\* The application: init(), the page's visibility events, the interval timer
\* and the clock.
AppInit ==
  /\ state = initialState
  /\ listeners = AppListeners
  /\ stack = <<>>
  /\ unsubs = {}
  /\ nested = 0
  /\ revoked = {}
  /\ revokedAny = {}
  /\ GenStart
  /\ AppStart

appRest == <<listeners, stack, unsubs, nested, revoked, revokedAny, genVars, alertVars, authVars, serialVars>>

AppNext ==
  \/ InitCall /\ UNCHANGED appRest
  \/ InitLoaded /\ UNCHANGED appRest
  \/ InitFailed /\ UNCHANGED appRest
  \/ PageVisible /\ UNCHANGED appRest
  \/ PageHidden /\ UNCHANGED appRest
  \/ Tick /\ UNCHANGED appRest
  \/ ClockStep /\ UNCHANGED appRest

SpecApp == AppInit /\ [][AppNext]_vars

\* checkThresholds on its own
AlertInit ==
  /\ StoreStart
  /\ AppStart
  /\ status \in ThresholdStatuses
  /\ rnd = [i \in 1..7 |-> 0]
  /\ updated = status
  /\ again = status
  /\ pc = "ready"

AlertNext == Check

SpecAlerts == AlertInit /\ [][AlertNext]_vars

\* The AuthService: the session storage holds no user, or the one of an
\* earlier login, which the constructor's init() has logged in again.
AuthInit ==
  /\ listeners = AuthListeners
  /\ stack = <<>>
  /\ unsubs = {}
  /\ nested = 0
  /\ revoked = {}
  /\ revokedAny = {}
  /\ GenStart
  /\ SchedStart
  /\ AlertStart
  /\ ArrayStart
  /\ SerialStart
  /\ logins = <<>>
  /\ lastLogin = Null
  /\ stale = 0
  /\ lastAuth = Step("none", "none", <<>>)
  /\ \/ /\ sessionStorage = Null
        /\ state = initialState
     \/ /\ sessionStorage = JsonStringify(AdminUser)
        /\ state = RunWrites(initialState, AuthListeners,
                             LoginWrites(JsonParse(sessionStorage)), 0, 0).state
  \* UIController.init renders the header once (renderAll)
  /\ header = Rendered(state)

authRest == <<listeners, stack, unsubs, nested, revoked, revokedAny, genVars, schedVars, alertVars, arrayVars, serialVars>>

AuthNext ==
  \/ \E u \in Usernames, p \in Passwords : Login(u, p) /\ UNCHANGED authRest
  \/ LoginTimer /\ UNCHANGED authRest
  \/ Logout /\ UNCHANGED authRest

SpecAuth == AuthInit /\ [][AuthNext]_vars

\* The ticks alone: the page stays visible, and getCurrentStatus() may
\* resolve to any malformed snapshot.
TickNext ==
  \/ InitCall /\ UNCHANGED appRest
  \/ Loaded({FirstStatus} \cup Malformed) /\ UNCHANGED appRest
  \/ Tick /\ UNCHANGED appRest
  \/ ClockStep /\ UNCHANGED appRest

SpecTick == AppInit /\ [][TickNext]_vars

\* The ticks statement by statement: the interval callbacks as tasks of the
\* event loop.
serialRest == <<listeners, stack, unsubs, nested, revoked, revokedAny, genVars, alertVars, authVars>>

SerialNext ==
  \/ InitCall /\ UNCHANGED appRest
  \/ InitLoaded /\ UNCHANGED appRest
  \/ ClockStep /\ UNCHANGED appRest
  \/ SerialFire /\ UNCHANGED serialRest
  \/ SerialStep /\ UNCHANGED serialRest

SpecSerial == AppInit /\ [][SerialNext]_vars

-----------------------------------------------------------------------------
(* Claims about the StateManager *)

Frames == Range(stack)
CalledCallbacks(f) == [i \in 1..Len(f.called) |-> f.called[i][1]]
CalledArgs(f) == [i \in 1..Len(f.called) |-> f.called[i][2]]
\* the innermost set is over: its loop ran to the end, or a callback raised
Finished(f) == f.threw \/ f.idx > LoopBound(f)
\* a top-level set whose loop ran to the end: the state it returns into
Returning == Len(stack) = 1 /\ ~Top.threw /\ Top.idx > LoopBound(Top)

\* C1: set(key, value) stores the value and, by the time it is over, has
\* called every callback that was subscribed to key when it was called,
\* once each, in subscription order, each with the new value.
C1_SetNotifiesAllInOrder ==
  stack # <<>> =>
    /\ Top.called = <<>> => Get(state, Top.key) = Top.value
    /\ Finished(Top) =>
         /\ CalledCallbacks(Top) = Top.atStart
         /\ \A i \in 1..Len(Top.called) : CalledArgs(Top)[i] = Top.value

\* C2: when a callback raises during a notification, the subscribers after
\* it in that notification are still called with the new value.
C2_RaiseDoesNotStopNotification ==
  \A f \in Frames :
    f.threw => \A i \in 1..Len(f.atStart) :
                 /\ i <= Len(f.called)
                 /\ f.called[i] = <<f.atStart[i], f.value>>

\* C3 as stated: once cb has been unsubscribed (and not subscribed again,
\* to any key), no set called later, on any key, calls cb.
C3_NoLaterSetOnAnyKeyCalls ==
  \A f \in Frames : \A i \in 1..Len(f.called) : f.called[i][1] \notin f.revAnyS

\* C3 as amended: once cb has been unsubscribed from key (and not
\* subscribed to key again), no set on key called later calls cb; a set on
\* another key calls cb only if cb is subscribed to that other key.
C3_NoLaterSetOnKeyCalls ==
  \A f \in Frames : \A i \in 1..Len(f.called) :
    /\ f.called[i][1] \notin f.revS
    /\ f.called[i][1] \in Range(f.atStart)

\* a set on a key from which a callback had been unsubscribed has called a
\* callback, while the unsubscribed one is still subscribed to another key
C3_Witness ==
  \E f \in Frames : \E c \in f.revS, k \in Keys :
    /\ Len(f.called) > 0
    /\ k # f.key
    /\ c \in Range(listeners[k])

Others(arr, cb) == SelectSeq(arr, LAMBDA x : x # cb)

\* C4: calling the unsubscribe closure of (key, cb) leaves in key's list
\* exactly the other callbacks, in their order, and leaves every other
\* key's list alone; calling it again (cb not subscribed to key since)
\* changes no list.
C4_UnsubscribeRemovesExactlyThat ==
  [][\A k \in Keys, c \in ListCallbacks :
       Unsubscribe(k, c) =>
         /\ c \notin Range(listeners'[k])
         /\ listeners'[k] = Others(listeners[k], c)
         /\ \A k2 \in Keys \ {k} : listeners'[k2] = listeners[k2]
         /\ <<k, c>> \in revoked => listeners' = listeners]_vars

\* a callback has been unsubscribed from a list in which two others stay
C4_Witness ==
  \E k \in Keys, c \in ListCallbacks :
    /\ <<k, c>> \in revoked
    /\ Len(listeners[k]) = 2
    /\ listeners[k][1] # listeners[k][2]

\* C5: a callback subscribed to a key while a notification of that key is
\* in progress is not called by that notification (which calls the list
\* as it was when set was called, and no more); the next set on the key
\* iterates the whole list, the new callback included.
C5_SubscribeInFlightNotCalled ==
  /\ \A f \in Frames :
        /\ Len(f.called) <= Len(f.atStart)
        /\ \A i \in 1..Len(f.called) : f.called[i][1] = f.atStart[i]
  /\ (stack # <<>> /\ Top.called = <<>>) =>
        SubSeq(Top.arr, 1, LoopBound(Top)) = listeners[Top.key]

\* a notification is over during which a callback subscribed another
\* callback to the same key
C5_Witness ==
  \E f \in Frames :
    /\ f.idx > f.len
    /\ Len(f.arr) > f.len
    /\ CalledCallbacks(f) = f.atStart
    /\ f.arr[Len(f.arr)] \notin Range(f.atStart)

\* C6: a stored value changes only in the step that calls set on its key,
\* and a notification of a key calls only callbacks subscribed to that key
\* when set was called.
C6_SetTouchesOnlyItsKey ==
  [][/\ \A k \in Keys :
          state'[k] # state[k] =>
            /\ Len(stack') = Len(stack) + 1
            /\ stack'[Len(stack')].key = k
     /\ \A i \in 1..Len(stack') : \A j \in 1..Len(stack'[i].called) :
          stack'[i].called[j][1] \in Range(stack'[i].atStart)]_vars

\* a set on one key has called a callback while another key, which
\* still holds its first value, has a subscriber that key does not have
C6_Witness ==
  \E f \in Frames : \E k \in Keys :
    /\ k # f.key
    /\ Len(f.called) > 0
    /\ Range(listeners[k]) \ Range(f.atStart) # {}
    /\ state[k] = InitialValue
    /\ state[f.key] # InitialValue

\* C7 as stated: a get(k) right after a top-level set(k, v1) returns
\* yields v1, whatever the subscribers of k do.
C7_ReadYourWrite ==
  Returning => Get(state, Top.key) = Top.value

\* C7 as amended: a get(k) right after a top-level set(k, v1) returns
\* yields v1 unless a callback called during that set has itself called
\* set on k.
C7_ReadYourWriteUnlessRewritten ==
  (Returning /\ ~Top.rewrote) => Get(state, Top.key) = Top.value

\* a top-level set that called subscribers, none of which wrote the key
\* again, is about to return a value other than the one stored before
C7_Witness ==
  /\ Returning
  /\ ~Top.rewrote
  /\ Len(Top.called) > 0
  /\ Top.value = "v2"
  /\ nested > 0

-----------------------------------------------------------------------------
(* Claims about simulateRealTimeData *)

\* C8: in every snapshot simulateRealTimeData returns (rounded to one
\* decimal), total_generation is exactly solar_generation + wind_generation.
C8_TotalIsSolarPlusWind ==
  pc = "done" =>
    updated.total_generation = updated.solar_generation + updated.wind_generation

\* C9: in every snapshot simulateRealTimeData returns, whatever the previous
\* snapshot and the draws, solar_generation is in [0, solar_capacity],
\* wind_generation in [0, wind_capacity], campus_load in [200, peak_demand],
\* battery_soc in [battery_low, 100], temperature in [25, 40], wind_speed in
\* [0, 15] and irradiance in [0, 1000].
C9_BoundedFieldsInRange ==
  pc = "done" =>
    /\ 0 <= updated.solar_generation
    /\ updated.solar_generation <= Whole(solar_capacity)
    /\ 0 <= updated.wind_generation
    /\ updated.wind_generation <= Whole(wind_capacity)
    /\ Whole(200) <= updated.campus_load
    /\ updated.campus_load <= Whole(peak_demand)
    /\ Whole(battery_low) <= updated.battery_soc
    /\ updated.battery_soc <= Whole(100)
    /\ Whole(25) <= updated.weather.temperature
    /\ updated.weather.temperature <= Whole(40)
    /\ 0 <= updated.weather.wind_speed
    /\ updated.weather.wind_speed <= Whole(15)
    /\ 0 <= updated.weather.irradiance
    /\ updated.weather.irradiance <= Whole(1000)

\* a snapshot returned for a previous one whose fields were out of range
\* (solar above the capacity, battery below battery_low), with a draw that
\* moves solar further up
C9_Witness ==
  /\ pc = "done"
  /\ status.solar_generation > Whole(solar_capacity)
  /\ status.battery_soc < Whole(battery_low)
  /\ Delta(rnd[1], RandomSteps, solar_variation) > 0
  /\ updated.solar_generation = Whole(solar_capacity)
  /\ updated.battery_soc = Whole(battery_low)

\* C10: in every snapshot simulateRealTimeData returns, grid_power is
\* exactly campus_load - total_generation - battery_power of that snapshot.
C10_GridIsLoadMinusTotalMinusBattery ==
  pc = "done" =>
    updated.grid_power =
      updated.campus_load - updated.total_generation - updated.battery_power

-----------------------------------------------------------------------------
(* Claims about the history, the scheduler and the tick *)

History == Get(state, "historicalData")
\* the latest operation was a tick that pushed a point: the subscribers of
\* historicalData were notified
Appended ==
  /\ lastStep.op = "tick"
  /\ \E i \in DOMAIN lastStep.notified : lastStep.notified[i][1] = "historicalData"
\* the last n entries of a sequence
LastOf(arr, n) == SubSeq(arr, Len(arr) - Min(n, Len(arr)) + 1, Len(arr))

\* C11: the history never holds more than maxPoints entries, and a tick that
\* appends leaves the most recent maxPoints of the old entries followed by
\* the new point, in that order: beyond the capacity the one oldest entry
\* goes, never the newest.
C11_HistoryKeepsMostRecent ==
  [][/\ Len(History') <= maxPoints
     /\ Appended' =>
          \E time \in Minutes :
            History' = LastOf(Append(History,
                                     HistoryPoint(Get(state', "currentStatus"), time)),
                              maxPoints)]_vars

\* a tick has appended to a full history, and every point the API gave is gone
C11_Witness ==
  /\ Appended
  /\ Len(History) = maxPoints
  /\ \A i \in DOMAIN History : History[i].time \in Minutes

\* C12: once stopRealTimeUpdates has returned, no tick begins (the timer
\* calls updateRealTimeData no more, and with it no tick writes to the store)
\* until startRealTimeUpdates is called again: a tick begins only when the
\* latest of the start and stop calls was a start.
C12_NoTickWhileStopped ==
  [][ticks' # ticks => calls[2] = "start" /\ calls' = calls]_vars

\* the scheduler stopped after at least one tick: no timer is left armed
C12_Witness ==
  /\ calls = <<"start", "stop">>
  /\ ticks > 0
  /\ timers = {}
  /\ lastStep.op = "stop"

\* the times, in clock steps from now, at which the armed timers fire next
Dues(ts) == {t.due : t \in ts}
\* the step is a call of startRealTimeUpdates
StartCalled == nextId' # nextId

\* C13: startRealTimeUpdates called while the scheduler is running leaves
\* the schedule of the pending ticks as it was: the next tick fires when it
\* would have fired without the call.
C13_StartWhileRunningKeepsSchedule ==
  [][StartCalled /\ updateInterval # NoTimer => Dues(timers') = Dues(timers)]_vars

\* the step is a call of stopRealTimeUpdates
StopCalled == lastStep'.op = "stop"

\* C14: stopRealTimeUpdates leaves no timer armed and updateInterval null,
\* and called when the scheduler is already stopped (a second time in a row,
\* or before any start) it changes nothing.
C14_StopIsIdempotent ==
  [][StopCalled =>
       /\ updateInterval' = NoTimer
       /\ timers' = {}
       /\ calls[2] \in {"stop", "none"} =>
            UNCHANGED <<updateInterval, timers, nextId, state, ticks, initPhase>>]_vars

\* stopRealTimeUpdates called twice in a row, after a start
C14_Witness ==
  /\ calls = <<"stop", "stop">>
  /\ nextId > 1
  /\ updateInterval = NoTimer
  /\ timers = {}

\* C15: whatever start and stop calls were made (init's start, a start per
\* page-visible event, a stop per page-hidden event, redundant ones
\* included), at most one interval timer is armed, it is the one
\* updateInterval holds, and one is armed exactly when the latest call was a
\* start.
C15_AtMostOneTimer ==
  /\ Cardinality(timers) <= 1
  /\ \A t \in timers : t.id = updateInterval
  /\ timers # {} <=> calls[2] = "start"

\* a start called while the scheduler was running: still one timer
C15_Witness ==
  /\ calls = <<"start", "start">>
  /\ Cardinality(timers) = 1

\* C16: a tick that finds no currentStatus in the store is skipped entirely:
\* it writes nothing to the store (currentStatus and historicalData stay as
\* they were) and no subscriber is notified.
C16_TickWithoutStatusIsSkipped ==
  [][ticks' # ticks /\ Get(state, "currentStatus") = Null =>
       /\ state' = state
       /\ lastStep'.notified = <<>>]_vars

\* a tick ran before the initial data was loaded
C16_Witness ==
  /\ lastStep = Step("tick", "skipped", <<>>)
  /\ Get(state, "currentStatus") = Null
  /\ ticks > 0

\* the handles of the armed timers
Handles(ts) == {t.id : t \in ts}

\* C17: a tick in which the generator or a subscriber raises does not stop
\* the loop: the timer that fired stays armed, due a whole interval later,
\* and updateInterval still holds it, so ticks keep firing until stop is
\* called.
C17_FailedTickKeepsTimer ==
  [][ticks' # ticks /\ lastStep'.outcome \in {"generator raised", "subscriber raised"} =>
       /\ Handles(timers') = Handles(timers)
       /\ Dues(timers') = {ClockSteps}
       /\ UNCHANGED updateInterval]_vars

\* init's start was the only one and the snapshot loaded has no weather:
\* every tick of the run failed, each fired after a failed one
C17_Witness ==
  /\ calls = <<"none", "start">>
  /\ ticks = MaxTicks
  /\ lastStep = Step("tick", "generator raised", <<>>)

\* the snapshot in the store lacks a field the generator reads
MalformedStatus(st) ==
  /\ Get(st, "currentStatus") # Null
  /\ Required \ DOMAIN Get(st, "currentStatus") # {}

\* C18: when the current snapshot is malformed (solar_generation,
\* wind_generation, campus_load, battery_soc, battery_power or weather is
\* missing), the generator raises and the tick publishes nothing:
\* currentStatus and historicalData stay as they were.
C18_MalformedSnapshotPublishesNothing ==
  [][ticks' # ticks /\ MalformedStatus(state) =>
       /\ lastStep'.outcome = "generator raised"
       /\ lastStep'.notified = <<>>
       /\ state' = state]_vars

-----------------------------------------------------------------------------
(* Claims about checkThresholds *)

\* the alerts returned for a threshold
AlertsOf(threshold) == {i \in DOMAIN alerts : alerts[i].threshold = threshold}

\* C19: checkThresholds returns exactly one alert for each violated rule
\* (battery_soc < battery_low, campus_load > load_high) and none for a rule
\* that is not violated: with battery_low 20, one battery alert for a state
\* of charge of 18.5 and none for 25.
C19_OneAlertPerViolatedRule ==
  pc = "done" =>
    /\ Cardinality(AlertsOf(battery_low)) =
         (IF status.battery_soc < Whole(battery_low) THEN 1 ELSE 0)
    /\ Cardinality(AlertsOf(load_high)) =
         (IF status.campus_load > Whole(load_high) THEN 1 ELSE 0)
    /\ Len(alerts) = Cardinality(AlertsOf(battery_low)) + Cardinality(AlertsOf(load_high))
    /\ status.battery_soc = Tenths(185) => Cardinality(AlertsOf(battery_low)) = 1
    /\ status.battery_soc = Tenths(250) => AlertsOf(battery_low) = {}

\* the state of charge is 18.5 and the load is high: two alerts returned
C19_Witness ==
  /\ pc = "done"
  /\ status.battery_soc = Tenths(185)
  /\ status.campus_load = Tenths(4001)
  /\ alerts = <<BatteryAlert, LoadAlert>>

-----------------------------------------------------------------------------
(* Claims about the AuthService *)

\* the step is the firing of a login timer
LoginFired == Len(logins') < Len(logins)

\* C20: a login with any pair other than admin/password is rejected and
\* logs nobody in, not even partly: neither the call nor the rejection
\* changes isAuthenticated, user or the persisted authUser.
C20_RejectedLoginChangesNothing ==
  [][/\ Len(logins') > Len(logins) => UNCHANGED <<state, sessionStorage>>
     /\ LoginFired /\ <<Head(logins).username, Head(logins).password>>
                        # <<"admin", "password">> =>
          /\ lastLogin'.outcome = "rejected"
          /\ UNCHANGED <<state, sessionStorage>>]_vars

\* a login was rejected while the admin was logged in, and the admin still is
C20_Witness ==
  /\ lastLogin # Null
  /\ lastLogin.outcome = "rejected"
  /\ lastLogin.username = "admin"
  /\ Get(state, "isAuthenticated") = TRUE
  /\ Get(state, "user") = AdminUser
  /\ sessionStorage = JsonStringify(AdminUser)

\* C21: after logout() returns, whatever the state before it, the session
\* storage holds no authUser, isAuthenticated is false and user is null.
C21_LogoutClearsEverything ==
  lastAuth.op = "logout" /\ lastAuth.outcome = "returned" =>
    /\ sessionStorage = Null
    /\ Get(state, "isAuthenticated") = FALSE
    /\ Get(state, "user") = Null

\* a logout has returned after a login had succeeded
C21_Witness ==
  /\ lastAuth.op = "logout"
  /\ lastAuth.outcome = "returned"
  /\ lastLogin # Null
  /\ lastLogin.outcome = "resolved"
  /\ Get(state, "user") = Null

\* C26: between the operations (no store write in progress) the header is
\* never left showing the logged-out view while the store holds
\* isAuthenticated = true and a user: after a login that succeeded it shows
\* that user, after a logout the login button.
C26_HeaderAgreesWithStore ==
  /\ Get(state, "isAuthenticated") = TRUE /\ Get(state, "user") # Null =>
       header = Rendered(state)
  /\ lastAuth.op = "logout" /\ lastAuth.outcome = "returned" => header = LoginButton

\* C27: once logout() has returned the user stays logged out until a login
\* called after that logout succeeds: the timer of a login called before the
\* logout, firing after it, logs nobody in.
C27_PendingLoginCannotLogBackIn ==
  [][LoginFired /\ stale > 0 => UNCHANGED <<state, sessionStorage>>]_vars

-----------------------------------------------------------------------------
(* Claims about the tick's writes *)

\* the step notified the subscribers of historicalData: a set on that key
HistorySet ==
  \E i \in DOMAIN lastStep'.notified : lastStep'.notified[i][1] = "historicalData"

\* C23: the history the store holds changes only in a set on historicalData,
\* and an array already passed to a subscriber is not modified by a later
\* tick: as long as it is the array the store holds, it has the contents it
\* was passed with.
C23_DeliveredHistoryIsNotModified ==
  [][/\ History' # History => HistorySet
     /\ ticks' # ticks /\ handed # Null /\ handed.array = histId' =>
          History' = handed.seq]_vars

\* C25: a tick that writes a new current snapshot also appends the point
\* derived from it to the history and publishes the history, whatever the
\* subscribers of currentStatus do.
C25_StatusWriteIsFollowedByHistory ==
  [][ticks' # ticks /\ Get(state', "currentStatus") # Get(state, "currentStatus") =>
       /\ HistorySet
       /\ \E time \in Minutes :
            History' = WithPoint(History,
                                 HistoryPoint(Get(state', "currentStatus"), time))]_vars

-----------------------------------------------------------------------------
(* Claims about a notification in progress *)

\* C28: once the unsubscribe closure of (key, cb) has returned, cb is not
\* called again for key, not even by the notification of key that was in
\* progress when the closure was called: every callback forEach calls is
\* one whose registration has not been revoked.
C28_RevokedCallbackIsNotCalled ==
  [][Calling => <<Top.key, Top.arr[Top.idx]>> \notin revoked]_vars

-----------------------------------------------------------------------------
(* Claims about the initial load *)

\* the keys loadInitialData writes from what the requests resolved to
LoadedKeys == {"currentStatus", "historicalData", "forecasts", "recommendations", "alerts"}

\* C30: loadInitialData sets loading to true when it starts and ends with
\* loading = false, whether the requests resolve or one is rejected; when one
\* is rejected none of the five data keys is written, error is set, and init
\* starts no real-time updates.
C30_LoadEndsWithLoadingFalse ==
  [][/\ initPhase = "new" /\ initPhase' = "loading" => Get(state', "loading") = TRUE
     /\ initPhase = "loading" /\ initPhase' = "done" => Get(state', "loading") = FALSE
     /\ lastStep' = Step("init", "failed", <<>>) /\ initPhase # initPhase' =>
          /\ \A k \in LoadedKeys : Get(state', k) = Get(state, k)
          /\ Get(state', "error") = Str("Failed to load initial data")
          /\ UNCHANGED <<updateInterval, timers, nextId>>]_vars

\* a request was rejected: the load is over, nothing was loaded, no timer is
\* armed
C30_Witness ==
  /\ lastStep = Step("init", "failed", <<>>)
  /\ initPhase = "done"
  /\ Get(state, "currentStatus") = Null
  /\ Get(state, "loading") = FALSE
  /\ timers = {}

-----------------------------------------------------------------------------
(* Claims about the generator's calls *)

\* C24: simulateRealTimeData is a pure function: two calls with the same
\* previous snapshot and the same draws return equal snapshots, and the
\* snapshot passed in, its weather included, is not modified.
C24_SimulateIsPure ==
  [][pc = "ready" /\ pc' = "done" => again' = updated' /\ status' = status]_vars

\* C29: checkThresholds on a snapshot the generator returned gives no
\* battery-low alert, whatever the previous snapshot was, and gives the
\* high-load alert exactly when the load returned is above load_high.
C29_NoBatteryAlertForGenerated ==
  pc = "checked" =>
    /\ BatteryAlert \notin Range(alerts)
    /\ LoadAlert \in Range(alerts) <=>
         (updated.campus_load # NaN /\ updated.campus_load > Whole(load_high))

\* the previous snapshot was below battery_low and the check of the one
\* returned gave the high-load alert alone
C29_Witness ==
  /\ pc = "checked"
  /\ "battery_soc" \in DOMAIN status
  /\ status.battery_soc < Whole(battery_low)
  /\ updated.battery_soc = Whole(battery_low)
  /\ alerts = <<LoadAlert>>

-----------------------------------------------------------------------------
(* Claims about the event loop *)

\* C22: ticks are serialized: an interval callback begins only when no
\* earlier one is between its first and its last store write, so at most
\* one is ever in its write sequence.
C22_TicksAreSerialized ==
  [][ticks' # ticks => tasks = {} /\ Cardinality(tasks') = 1]_vars

\* a second tick has written its snapshot and not yet pushed its point
C22_Witness ==
  /\ ticks >= 2
  /\ \E t \in tasks : t.at = "status" /\ t.n = ticks
  /\ Len(Get(state, "historicalData")) >= 2

====
